---- MODULE Spec2Model ----
(***************************************************************************)
(* A model of parse_peers_dat.py: the decoder of a peers.dat address       *)
(* database.  parse_peers_dat reads a 50-byte header, walks a table of     *)
(* 62-byte peer records, classifies the 16-byte address field of each      *)
(* record with parse_ip_address, deduplicates the address texts into an    *)
(* IPv4 and an IPv6 set, and asserts the trailing double-hash checksum.    *)
(*                                                                         *)
(* The state is the input buffer and the local variables of                *)
(* parse_peers_dat; there is one action per stage of the function.  A      *)
(* Python exception ends the run in pc = "failed" with its type in err     *)
(* and the source line that raised it in errLine.                          *)
(***************************************************************************)
EXTENDS Integers, Sequences, FiniteSets, TLC

VARIABLES
    data,                 \* the bytes read from the file (line 9)
    pc,                   \* "header", "loop", "assert_counts", "checksum", "return", "returned", "failed"
    new_address_count,    \* line 16
    tried_address_count,  \* line 17
    new_bucket_count,     \* line 18
    offset,               \* line 21, 36
    k,                    \* the number of iterations of the loop of line 26 done so far
    peer_data,            \* line 27: the slice read by the last iteration
    ip,                   \* line 28: what parse_ip_address returned in the last iteration
    unique_addresses,     \* line 22
    ipv4_addresses,       \* line 23
    ipv6_addresses,       \* line 24
    err,                  \* the exception that ended the run, "none" while there is none
    errLine,              \* the source line that raised it, 0 while there is none
    result                \* the returned pair of lists (line 46), NoResult until then

vars == <<data, pc, new_address_count, tried_address_count, new_bucket_count,
          offset, k, peer_data, ip, unique_addresses, ipv4_addresses,
          ipv6_addresses, err, errLine, result>>

--------------------------------------------------------------------------
(* Bounds of the model. *)

\* The largest number of whole records a generated buffer holds.
MaxRecords == 3
\* The largest new-address count a generated header declares.
MaxNew == 2
\* The largest tried-address count a generated header declares.
MaxTried == 1

--------------------------------------------------------------------------
(* The layout constants of the source. *)

HeaderSize == 50
RecordSize == 62
AddrStart == 16
AddrEnd == 32
ChecksumSize == 32
BucketTag == 1073741824

--------------------------------------------------------------------------
(* Python's sequence operations. *)

Min(a, b) == IF a < b THEN a ELSE b
Max(a, b) == IF a > b THEN a ELSE b

\* s[a:b] for 0 <= a, 0 <= b: the bounds are clipped to the length.
Slice(s, a, b) ==
    LET lo == Min(a, Len(s))
        hi == Min(b, Len(s))
    IN  IF lo >= hi THEN <<>> ELSE SubSeq(s, lo + 1, hi)

\* s[-n:]: the last n elements, all of s when it is shorter.
LastBytes(s, n) == Slice(s, Max(Len(s) - n, 0), Len(s))

\* s[:-n]: all but the last n elements, empty when s is no longer than n.
AllButLast(s, n) == Slice(s, 0, Max(Len(s) - n, 0))

Rep(b, n) == [i \in 1..n |-> b]

\* struct.unpack("<I", b)[0] of a 4-byte string.
UnpackLE32(b) == b[1] + 256 * b[2] + 65536 * b[3] + 16777216 * b[4]

\* v ^ (1 << 30) for 0 <= v < 2^31.
XorBucketTag(v) ==
    IF (v \div BucketTag) % 2 = 1 THEN v - BucketTag ELSE v + BucketTag

--------------------------------------------------------------------------
(* socket.inet_ntop and hashlib.sha256. *)

HexDigit == <<"0", "1", "2", "3", "4", "5", "6", "7",
              "8", "9", "a", "b", "c", "d", "e", "f">>

\* "%x" of a 16-bit word: lowercase, no leading zeros.
RECURSIVE Hex(_)
Hex(n) == IF n < 16 THEN HexDigit[n + 1]
          ELSE Hex(n \div 16) \o HexDigit[(n % 16) + 1]

\* socket.inet_ntop(socket.AF_INET, b) of 4 bytes: dotted decimal.
inet_ntop4(b) ==
    ToString(b[1]) \o "." \o ToString(b[2]) \o "." \o
    ToString(b[3]) \o "." \o ToString(b[4])

\* The eight 16-bit words of a 16-byte address, big-endian.
Words(b) == [i \in 1..8 |-> 256 * b[2 * i - 1] + b[2 * i]]

\* The number of consecutive zero words of w from word i on.
RECURSIVE ZeroRun(_, _)
ZeroRun(w, i) == IF i > 8 \/ w[i] # 0 THEN 0 ELSE 1 + ZeroRun(w, i + 1)

\* The first word of the run "::" replaces: the longest run of at least two
\* zero words, the first of them when several are as long; 0 when none is.
BestBase(w) ==
    LET starts == {i \in 1..8 : /\ w[i] = 0
                                /\ (i = 1 \/ w[i - 1] # 0)
                                /\ ZeroRun(w, i) >= 2}
    IN  IF starts = {} THEN 0
        ELSE CHOOSE i \in starts :
                 \A j \in starts :
                     \/ ZeroRun(w, j) < ZeroRun(w, i)
                     \/ (ZeroRun(w, j) = ZeroRun(w, i) /\ i <= j)

\* The text of words i..8, base being the compressed run's first word.
RECURSIVE Fmt6(_, _, _, _)
Fmt6(b, w, i, base) ==
    LET len == IF base = 0 THEN 0 ELSE ZeroRun(w, base)
    IN  IF i > 8 THEN (IF base # 0 /\ base + len = 9 THEN ":" ELSE "")
        ELSE IF base # 0 /\ i >= base /\ i < base + len
             THEN (IF i = base THEN ":" ELSE "") \o Fmt6(b, w, i + 1, base)
        ELSE IF i = 7 /\ base = 1 /\ (len = 6 \/ (len = 5 /\ w[6] = 65535))
             THEN ":" \o inet_ntop4(SubSeq(b, 13, 16))
        ELSE (IF i # 1 THEN ":" ELSE "") \o Hex(w[i]) \o Fmt6(b, w, i + 1, base)

\* socket.inet_ntop(socket.AF_INET6, b) of 16 bytes: colon-hex with the
\* longest zero run compressed.
inet_ntop6(b) == Fmt6(b, Words(b), 1, BestBase(Words(b)))

\* hashlib.sha256(s).digest(), taken as an abstract function from byte
\* strings to 32-byte digests: a position-weighted sum of the bytes lo..hi,
\* computed by halving, spread over 32 bytes.
RECURSIVE HashAcc(_, _, _)
HashAcc(s, lo, hi) ==
    IF lo > hi THEN 0
    ELSE IF lo = hi THEN (lo * (s[lo] + 1)) % 65521
    ELSE LET mid == (lo + hi) \div 2
         IN  (HashAcc(s, lo, mid) + HashAcc(s, mid + 1, hi)) % 65521

sha256(s) ==
    LET a == (HashAcc(s, 1, Len(s)) + 17 * Len(s) + 3) % 65521
    IN  [i \in 1..ChecksumSize |-> (a * i + i * i + (a \div 256)) % 256]

--------------------------------------------------------------------------
(* parse_ip_address and the IPAddress class. *)

\* IPAddress(ip, version), lines 62-65.
IPAddress(text, version) == [ip |-> text, version |-> version]

\* Python's None as the value of parse_ip_address.
NoneIP == [ip |-> "", version |-> 0]

\* parse_ip_address with the length test first: a 16-byte field is IPv6
\* whatever its first byte.
parse_ip_address_LengthFirst(ip_bytes) ==
    IF Len(ip_bytes) = 0
    THEN NoneIP
    ELSE IF Len(ip_bytes) = 16
    THEN IPAddress(inet_ntop6(ip_bytes), 6)
    ELSE IF ip_bytes[1] = 0 /\ Len(ip_bytes) >= 16
    THEN IPAddress(inet_ntop4(Slice(ip_bytes, 12, 16)), 4)
    ELSE NoneIP

parse_ip_address(ip_bytes) ==
    IF Len(ip_bytes) = 0
    THEN NoneIP
    ELSE IF ip_bytes[1] = 0 /\ Len(ip_bytes) >= 16
    THEN IPAddress(inet_ntop4(Slice(ip_bytes, 12, 16)), 4)
    ELSE IF Len(ip_bytes) = 16
    THEN IPAddress(inet_ntop6(ip_bytes), 6)
    ELSE NoneIP

--------------------------------------------------------------------------
(* The pieces of parse_peers_dat. *)

\* HeaderError off by one: a buffer of exactly 50 bytes is refused too.
HeaderErrorOffByOne(d) ==
    IF Len(d) <= 4 THEN [err |-> "IndexError", line |-> 14]
    ELSE IF Len(d) <= 5 THEN [err |-> "IndexError", line |-> 15]
    ELSE IF Len(d) <= 42 THEN [err |-> "struct.error", line |-> 16]
    ELSE IF Len(d) <= 46 THEN [err |-> "struct.error", line |-> 17]
    ELSE IF Len(d) <= 50 THEN [err |-> "struct.error", line |-> 18]
    ELSE [err |-> "none", line |-> 0]

\* The exception the header lines 13-18 raise on buffer d, "none" when they
\* raise none: data[4] and data[5] raise IndexError past the end, and
\* struct.unpack("<I", ...) raises struct.error on a slice that is not 4 bytes.
HeaderError(d) ==
    IF Len(d) <= 4 THEN [err |-> "IndexError", line |-> 14]
    ELSE IF Len(d) <= 5 THEN [err |-> "IndexError", line |-> 15]
    ELSE IF Len(Slice(d, 38, 42)) # 4 THEN [err |-> "struct.error", line |-> 16]
    ELSE IF Len(Slice(d, 42, 46)) # 4 THEN [err |-> "struct.error", line |-> 17]
    ELSE IF Len(Slice(d, 46, 50)) # 4 THEN [err |-> "struct.error", line |-> 18]
    ELSE [err |-> "none", line |-> 0]

\* LoopCount without the tried addresses.
LoopCountNewOnly(new, tried) == new

\* The number of iterations of the loop of line 26.
LoopCount(new, tried) == new + tried

\* Line 27: data[offset:offset+62].
PeerData(d, off) == Slice(d, off, off + RecordSize)

\* AddrField one byte early: peer_data[15:31].
AddrFieldShifted(p) == Slice(p, AddrStart - 1, AddrEnd - 1)

\* Line 28: peer_data[16:32].
AddrField(p) == Slice(p, AddrStart, AddrEnd)

\* Line 36: offset += 62.
NextOffset(off) == off + RecordSize

\* Lines 22-24: the three sets before the loop.
EmptySets == [unique |-> {}, ipv4 |-> {}, ipv6 |-> {}]

\* Accumulate with both bucket adds run for every new address.
AccumulateBothBuckets(acc, a) ==
    IF a # NoneIP /\ a.ip \notin acc.unique
    THEN [unique |-> acc.unique \cup {a.ip},
          ipv4 |-> acc.ipv4 \cup {a.ip},
          ipv6 |-> acc.ipv6 \cup {a.ip}]
    ELSE acc

\* Accumulate without line 31: the address is never recorded as seen.
AccumulateForgetUnique(acc, a) ==
    IF a # NoneIP /\ a.ip \notin acc.unique
    THEN [unique |-> acc.unique,
          ipv4 |-> IF a.version = 4 THEN acc.ipv4 \cup {a.ip} ELSE acc.ipv4,
          ipv6 |-> IF a.version # 4 /\ a.version = 6
                   THEN acc.ipv6 \cup {a.ip} ELSE acc.ipv6]
    ELSE acc

\* Lines 29-35: what one iteration does to the three sets, a being the
\* value of parse_ip_address.
Accumulate(acc, a) ==
    IF a # NoneIP /\ a.ip \notin acc.unique
    THEN [unique |-> acc.unique \cup {a.ip},
          ipv4 |-> IF a.version = 4 THEN acc.ipv4 \cup {a.ip} ELSE acc.ipv4,
          ipv6 |-> IF a.version # 4 /\ a.version = 6
                   THEN acc.ipv6 \cup {a.ip} ELSE acc.ipv6]
    ELSE acc

\* Lines 26-36 as a function: the three sets after n more iterations from
\* offset off and sets acc on buffer d.
RECURSIVE RecordLoopFrom(_, _, _, _)
RecordLoopFrom(d, off, n, acc) ==
    IF n = 0 THEN acc
    ELSE RecordLoopFrom(d, NextOffset(off), n - 1,
                        Accumulate(acc, parse_ip_address(AddrField(PeerData(d, off)))))

\* Lines 21-36: the three sets at loop exit for buffer d and counts new, tried.
RecordLoop(d, new, tried) ==
    RecordLoopFrom(d, HeaderSize, LoopCount(new, tried), EmptySets)

\* Line 43: hashlib.sha256(hashlib.sha256(data[:-32]).digest()).digest().
CalculatedChecksum(d) == sha256(sha256(AllButLast(d, ChecksumSize)))

\* ChecksumOK with the assertion of line 44 compiled away.
ChecksumOKStripped(d) == TRUE

\* Line 44: the asserted condition.
ChecksumOK(d) == LastBytes(d, ChecksumSize) = CalculatedChecksum(d)

\* list(s) of a set: its elements once each, in an order Python does not fix.
ListsOf(S) ==
    {l \in [1..Cardinality(S) -> S] : {l[i] : i \in 1..Cardinality(S)} = S}

\* The value of result while parse_peers_dat has not returned.
NoResult == <<>>

--------------------------------------------------------------------------
(* The input buffers. *)

\* A 50-byte header: magic, version, key size, a 32-byte key, and the three
\* little-endian counts at offsets 38, 42 and 46, the last with bit 30 set.
MkHeader(new, tried) ==
    <<250, 195, 182, 218, 1, 32>> \o Rep(7, 32)
        \o <<new % 256, (new \div 256) % 256, 0, 0>>
        \o <<tried % 256, (tried \div 256) % 256, 0, 0>>
        \o <<5, 0, 0, 64>>

\* A 62-byte record holding the 16-byte address field f at [16:32).
MkRecord(f) == Rep(171, AddrStart) \o f \o Rep(171, RecordSize - AddrEnd)

RECURSIVE MkRecords(_)
MkRecords(tbl) ==
    IF tbl = <<>> THEN <<>> ELSE MkRecord(Head(tbl)) \o MkRecords(Tail(tbl))

\* 1.2.3.4, twice with different bytes 1..11, 10.0.0.255 in IPv4-mapped
\* form, 2001:db8::1 and fe80::.
F4a == Rep(0, 12) \o <<1, 2, 3, 4>>
F4b == <<0>> \o Rep(9, 11) \o <<1, 2, 3, 4>>
F4c == Rep(0, 10) \o <<255, 255, 10, 0, 0, 255>>
F6a == <<32, 1, 13, 184>> \o Rep(0, 11) \o <<1>>
F6b == <<254, 128>> \o Rep(0, 14)

FieldSet == {F4a, F4b, F6a, F6b}
TruncFieldSet == {F4b, F6a}

Tables == UNION {[1..n -> FieldSet] : n \in 0..MaxRecords}
\* The tables that are cut short: whole records of 10.0.0.255 and fe80:: in
\* turn, then a last record, the one the cut falls in.
TruncTables ==
    {[i \in 1..n |-> IF i = n THEN f ELSE IF i % 2 = 1 THEN F4c ELSE F6b] :
        n \in 1..MaxRecords, f \in TruncFieldSet}

\* The numbers of bytes cut off the end of the record table: every length
\* 16..0 of the last address field, and one byte more or less than a record.
Drops == ((RecordSize - AddrEnd)..(RecordSize - AddrStart)) \cup {1, RecordSize - 1}

WithTrailer(body, kind) ==
    LET h == sha256(sha256(body))
    IN  CASE kind = "valid" -> body \o h
          [] kind = "corrupt" -> body \o [h EXCEPT ![1] = (@ + 1) % 256]
          [] OTHER -> body

\* Buffers no longer than a header.
InitShort ==
    \E len \in 0..HeaderSize : data = Slice(MkHeader(1, 1), 0, len)

\* A header, a table of whole records and a trailer; the declared counts
\* need not match the table.  The trailer is the double hash of what
\* precedes it, or, after a table of at most one record, that with its first
\* byte changed.
InitComplete ==
    \E new \in 0..MaxNew, tried \in 0..MaxTried, tbl \in Tables,
       kind \in {"valid", "corrupt"} :
        /\ kind = "corrupt" => Len(tbl) <= 1
        /\ data = WithTrailer(MkHeader(new, tried) \o MkRecords(tbl), kind)

\* A record table cut short, with or without a trailer after the cut; the
\* header declares every record of the table as new.
InitTruncated ==
    \E tried \in 0..MaxTried, tbl \in TruncTables,
       drop \in Drops, kind \in {"none", "valid"} :
        LET body == MkHeader(Len(tbl), tried) \o MkRecords(tbl)
        IN  data = WithTrailer(Slice(body, 0, Len(body) - drop), kind)

Init ==
    /\ (InitShort \/ InitComplete \/ InitTruncated)
    /\ pc = "header"
    /\ new_address_count = 0
    /\ tried_address_count = 0
    /\ new_bucket_count = 0
    /\ offset = 0
    /\ k = 0
    /\ peer_data = <<>>
    /\ ip = NoneIP
    /\ unique_addresses = {}
    /\ ipv4_addresses = {}
    /\ ipv6_addresses = {}
    /\ err = "none"
    /\ errLine = 0
    /\ result = NoResult

--------------------------------------------------------------------------
(* The stages of parse_peers_dat. *)

Raise(e, line) ==
    /\ pc' = "failed"
    /\ err' = e
    /\ errLine' = line

\* Lines 13-24: the header, then the loop's variables.
ReadHeader ==
    /\ pc = "header"
    /\ LET e == HeaderError(data)
       IN  IF e.err # "none"
           THEN /\ Raise(e.err, e.line)
                /\ UNCHANGED <<new_address_count, tried_address_count,
                               new_bucket_count, offset>>
           ELSE /\ new_address_count' = UnpackLE32(Slice(data, 38, 42))
                /\ tried_address_count' = UnpackLE32(Slice(data, 42, 46))
                /\ new_bucket_count' = XorBucketTag(UnpackLE32(Slice(data, 46, 50)))
                /\ offset' = HeaderSize
                /\ pc' = "loop"
                /\ UNCHANGED <<err, errLine>>
    /\ unique_addresses' = {}
    /\ ipv4_addresses' = {}
    /\ ipv6_addresses' = {}
    /\ UNCHANGED <<data, k, peer_data, ip, result>>

\* LoopIter with line 36 inside the "if ip is not None" block: the offset
\* moves on only past a parseable record.
LoopIterSkipAdvance ==
    /\ pc = "loop"
    /\ k < LoopCount(new_address_count, tried_address_count)
    /\ peer_data' = PeerData(data, offset)
    /\ ip' = parse_ip_address(AddrField(peer_data'))
    /\ LET acc == Accumulate([unique |-> unique_addresses,
                              ipv4 |-> ipv4_addresses,
                              ipv6 |-> ipv6_addresses], ip')
       IN  /\ unique_addresses' = acc.unique
           /\ ipv4_addresses' = acc.ipv4
           /\ ipv6_addresses' = acc.ipv6
    /\ offset' = IF ip' # NoneIP THEN NextOffset(offset) ELSE offset
    /\ k' = k + 1
    /\ UNCHANGED <<data, pc, new_address_count, tried_address_count,
                   new_bucket_count, err, errLine, result>>

\* Lines 26-36: one iteration of the loop.
LoopIter ==
    /\ pc = "loop"
    /\ k < LoopCount(new_address_count, tried_address_count)
    /\ peer_data' = PeerData(data, offset)
    /\ ip' = parse_ip_address(AddrField(peer_data'))
    /\ LET acc == Accumulate([unique |-> unique_addresses,
                              ipv4 |-> ipv4_addresses,
                              ipv6 |-> ipv6_addresses], ip')
       IN  /\ unique_addresses' = acc.unique
           /\ ipv4_addresses' = acc.ipv4
           /\ ipv6_addresses' = acc.ipv6
    /\ offset' = NextOffset(offset)
    /\ k' = k + 1
    /\ UNCHANGED <<data, pc, new_address_count, tried_address_count,
                   new_bucket_count, err, errLine, result>>

\* Lines 26 and 39: the loop ends and the count assertion runs.
AssertCounts ==
    /\ pc = "loop"
    /\ k >= LoopCount(new_address_count, tried_address_count)
    /\ IF Cardinality(ipv4_addresses) + Cardinality(ipv6_addresses)
              <= new_address_count + tried_address_count
       THEN pc' = "checksum" /\ UNCHANGED <<err, errLine>>
       ELSE Raise("AssertionError", 39)
    /\ UNCHANGED <<data, new_address_count, tried_address_count,
                   new_bucket_count, offset, k, peer_data, ip,
                   unique_addresses, ipv4_addresses, ipv6_addresses, result>>

\* Lines 42-44: the checksum assertion.
VerifyChecksum ==
    /\ pc = "checksum"
    /\ IF ChecksumOK(data)
       THEN pc' = "return" /\ UNCHANGED <<err, errLine>>
       ELSE Raise("AssertionError", 44)
    /\ UNCHANGED <<data, new_address_count, tried_address_count,
                   new_bucket_count, offset, k, peer_data, ip,
                   unique_addresses, ipv4_addresses, ipv6_addresses, result>>

\* Line 46: return list(ipv4_addresses), list(ipv6_addresses).
Return ==
    /\ pc = "return"
    /\ \E l4 \in ListsOf(ipv4_addresses), l6 \in ListsOf(ipv6_addresses) :
           result' = <<l4, l6>>
    /\ pc' = "returned"
    /\ UNCHANGED <<data, new_address_count, tried_address_count,
                   new_bucket_count, offset, k, peer_data, ip,
                   unique_addresses, ipv4_addresses, ipv6_addresses,
                   err, errLine>>

Next == ReadHeader \/ LoopIter \/ AssertCounts \/ VerifyChecksum \/ Return

Spec == Init /\ [][Next]_vars

--------------------------------------------------------------------------
(* What the properties below speak of. *)

\* The header was read without an exception.
HeaderRead == pc # "header" /\ ~(pc = "failed" /\ errLine <= 18)

\* The run is over.
Ended == pc \in {"returned", "failed"}

\* The declared number of records.
DeclaredCount == new_address_count + tried_address_count

\* The bytes of the buffer at [50 + 62 i + 16, 50 + 62 i + 32), as far as
\* the buffer goes.
FieldAt(d, i) ==
    LET lo == HeaderSize + RecordSize * i + AddrStart
        n == Max(Min(lo + (AddrEnd - AddrStart), Len(d)) - lo, 0)
    IN  [j \in 1..n |-> d[lo + j]]

\* The i-th record lies wholly inside the buffer.
WholeRecord(d, i) == HeaderSize + RecordSize * (i + 1) <= Len(d)

\* The i-th address field lies wholly inside the buffer.
WholeField(d, i) == HeaderSize + RecordSize * i + AddrEnd <= Len(d)

\* The address texts of the parseable fields among the first n.
SeenTexts(d, n) ==
    {parse_ip_address(FieldAt(d, i)).ip :
        i \in {j \in 0..(n - 1) : parse_ip_address(FieldAt(d, j)) # NoneIP}}

\* Record i is the first of the buffer whose field reads as text a.
IsFirstOccurrence(d, i, a) ==
    /\ parse_ip_address(FieldAt(d, i)) # NoneIP
    /\ parse_ip_address(FieldAt(d, i)).ip = a
    /\ \A j \in 0..(i - 1) :
           \/ parse_ip_address(FieldAt(d, j)) = NoneIP
           \/ parse_ip_address(FieldAt(d, j)).ip # a

\* The trailer of the buffer is the double hash of what precedes it.
TrailerMatches ==
    LastBytes(data, ChecksumSize) = sha256(sha256(AllButLast(data, ChecksumSize)))

TheSets == [unique |-> unique_addresses, ipv4 |-> ipv4_addresses,
            ipv6 |-> ipv6_addresses]

--------------------------------------------------------------------------
(* C1 *)

\* C1: after k records of the loop |ipv4_addresses| + |ipv6_addresses| <= k,
\* k never exceeds new_count + tried_count, and so the assertion of line 39
\* never fails.
C1_CountBound ==
    /\ Cardinality(ipv4_addresses) + Cardinality(ipv6_addresses) <= k
    /\ HeaderRead => k <= DeclaredCount
    /\ ~(err = "AssertionError" /\ errLine = 39)

\* The loop has ended after three records that gave three addresses.
C1_Witness ==
    /\ pc = "checksum"
    /\ k = 3
    /\ Cardinality(ipv4_addresses) + Cardinality(ipv6_addresses) = k

--------------------------------------------------------------------------
(* C5 *)

\* The field f with its bytes 1..11 (the 2nd to the 12th) all set to v.
WithMiddle(f, v) == [i \in 1..Len(f) |-> IF i >= 2 /\ i <= 12 THEN v ELSE f[i]]

\* C5: on the field of every record read, parse_ip_address gives None for an
\* empty field; else, for first byte 0 and length >= 16, IPv4 with the dotted
\* text of bytes 12..15 alone, the same whatever bytes 1..11 hold; else, for
\* length exactly 16, IPv6 with the colon-hex text of all 16 bytes; else None.
C5_ClassifierRules ==
    k > 0 =>
        LET f == FieldAt(data, k - 1)
        IN  /\ Len(f) <= 16
            /\ Len(f) = 0 => ip = NoneIP
            /\ (Len(f) >= 16 /\ f[1] = 0) =>
                   /\ ip.version = 4
                   /\ ip.ip = inet_ntop4(<<f[13], f[14], f[15], f[16]>>)
                   /\ \A v \in {0, 9, 255} : parse_ip_address(WithMiddle(f, v)) = ip
            /\ (Len(f) = 16 /\ f[1] # 0) =>
                   /\ ip.version = 6
                   /\ ip.ip = inet_ntop6(f)
            /\ (Len(f) >= 1 /\ Len(f) <= 15) => ip = NoneIP

\* A 16-byte field with first byte 0 and nonzero bytes after it was read as
\* IPv4.
C5_Witness ==
    /\ k > 0
    /\ Len(FieldAt(data, k - 1)) = 16
    /\ FieldAt(data, k - 1)[1] = 0
    /\ FieldAt(data, k - 1)[2] # 0
    /\ ip.version = 4

--------------------------------------------------------------------------
(* C6 *)

\* The state half of C6: unique_addresses is the set of texts of the
\* parseable fields read so far, the two buckets are disjoint, their union
\* is unique_addresses, and each text is in the bucket of the family its
\* first occurrence was given.
C6_Partition ==
    HeaderRead =>
        /\ unique_addresses = SeenTexts(data, k)
        /\ ipv4_addresses \cap ipv6_addresses = {}
        /\ ipv4_addresses \cup ipv6_addresses = unique_addresses
        /\ \A a \in unique_addresses :
               \A i \in 0..(k - 1) :
                   IsFirstOccurrence(data, i, a) =>
                       /\ a \in ipv4_addresses
                              <=> parse_ip_address(FieldAt(data, i)).version = 4
                       /\ a \in ipv6_addresses
                              <=> parse_ip_address(FieldAt(data, i)).version = 6

\* The step half of C6: no step removes an address from a set or moves it
\* to the other bucket, and an iteration that reads a text already seen
\* changes none of the three sets.
C6_Step ==
    /\ HeaderRead =>
           /\ unique_addresses \subseteq unique_addresses'
           /\ ipv4_addresses \subseteq ipv4_addresses'
           /\ ipv6_addresses \subseteq ipv6_addresses'
    /\ (k' = k + 1 /\ ip' # NoneIP /\ ip'.ip \in unique_addresses) =>
           UNCHANGED <<unique_addresses, ipv4_addresses, ipv6_addresses>>

\* C6: after any prefix of the record table, the three sets are as
\* C6_Partition says, and every step keeps them as C6_Step says.
C6_DedupPartition == []C6_Partition /\ [][C6_Step]_vars

\* The last record read repeats a text seen before, and both buckets hold
\* an address.
C6_Witness ==
    /\ pc = "loop"
    /\ k >= 2
    /\ ip # NoneIP
    /\ \E i \in 0..(k - 2) : parse_ip_address(FieldAt(data, i)) = ip
    /\ ipv4_addresses # {}
    /\ ipv6_addresses # {}

--------------------------------------------------------------------------
(* C2 *)

\* The declared records do not all fit in the buffer.
Truncated == HeaderSize + RecordSize * DeclaredCount > Len(data)

\* C2: when the declared record count implies a record that extends past
\* the end of the buffer, decoding fails with an error for the truncated
\* record: no iteration reads a record that is not wholly there, and the run
\* ends failed by an exception of the loop (lines 26-36), never with a result.
C2_TruncatedRecordRaised ==
    (HeaderRead /\ Truncated) =>
        /\ k > 0 => WholeRecord(data, k - 1)
        /\ pc # "returned"
        /\ Ended => (pc = "failed" /\ errLine >= 26 /\ errLine <= 36)

--------------------------------------------------------------------------
(* C3 *)

\* C3: when the trailer differs from the double hash, decoding does not
\* abort: the run ends returned, with the complete address result and a
\* status that tells the mismatch.
C3_MismatchReported ==
    (HeaderRead /\ Ended /\ ~TrailerMatches) =>
        /\ pc = "returned"
        /\ result \in ListsOf(ipv4_addresses) \X ListsOf(ipv6_addresses)
        /\ err # "none"

--------------------------------------------------------------------------
(* C4 *)

\* C4: address lists are returned only for a buffer whose last 32 bytes are
\* the double hash of the bytes before them; for every other buffer nothing
\* is returned, whatever the loop accumulated, and the run ends failed.
C4_ChecksumGates ==
    /\ (pc \in {"return", "returned"} \/ result # NoResult) => TrailerMatches
    /\ (HeaderRead /\ pc = "failed") =>
           /\ ~TrailerMatches
           /\ errLine = 44
           /\ result = NoResult

\* The run failed on the checksum after the loop had collected addresses of
\* both families.
C4_Witness ==
    /\ pc = "failed"
    /\ err = "AssertionError"
    /\ errLine = 44
    /\ ~TrailerMatches
    /\ ipv4_addresses # {}
    /\ ipv6_addresses # {}
    /\ result = NoResult

--------------------------------------------------------------------------
(* C7 *)

\* C7: for a buffer shorter than 50 bytes the header lines raise (IndexError
\* from data[4] or data[5], struct.error from struct.unpack) before any
\* record is read and nothing is returned; for a buffer of 50 bytes or more
\* the header lines raise nothing.
C7_HeaderTooShort ==
    /\ (Len(data) < HeaderSize /\ pc # "header") =>
           /\ pc = "failed"
           /\ err \in {"IndexError", "struct.error"}
           /\ errLine >= 14 /\ errLine <= 18
           /\ k = 0
           /\ peer_data = <<>>
           /\ unique_addresses = {} /\ ipv4_addresses = {} /\ ipv6_addresses = {}
           /\ result = NoResult
    /\ (Len(data) >= HeaderSize /\ pc # "header") =>
           /\ HeaderRead
           /\ err \notin {"IndexError", "struct.error"}
           /\ offset >= HeaderSize

\* A 49-byte buffer failed in the header.
C7_Witness ==
    /\ Len(data) = HeaderSize - 1
    /\ pc = "failed"
    /\ err = "struct.error"
    /\ errLine = 18

--------------------------------------------------------------------------
(* C8 *)

\* The state half of C8: every address in the output is the text of an
\* address field of a record read so far that lies wholly inside the buffer.
C8_FromWholeFields ==
    \A a \in ipv4_addresses \cup ipv6_addresses :
        \E i \in 0..(k - 1) :
            /\ WholeField(data, i)
            /\ Len(FieldAt(data, i)) = 16
            /\ parse_ip_address(FieldAt(data, i)).ip = a

\* The step half of C8: an iteration whose field is unparseable raises
\* nothing, leaves the three sets alone, moves the offset on by 62 and stays
\* in the loop; and a field of fewer than 16 bytes is unparseable.
C8_Step ==
    /\ (k' = k + 1 /\ Len(AddrField(peer_data')) < 16) => ip' = NoneIP
    /\ (k' = k + 1 /\ ip' = NoneIP) =>
           /\ UNCHANGED <<unique_addresses, ipv4_addresses, ipv6_addresses>>
           /\ offset' = offset + 62
           /\ pc' = "loop"
           /\ err' = "none"

\* C8: a record with an unparseable field is skipped, not an error, and
\* every address comes from a whole 16-byte field inside the buffer.
C8_UnparseableSkipped == []C8_FromWholeFields /\ [][C8_Step]_vars

\* An iteration found a field of 1..15 bytes unparseable after an earlier
\* record gave an address, and records remain to be read.
C8_Witness ==
    /\ pc = "loop"
    /\ k >= 2
    /\ k < DeclaredCount
    /\ ip = NoneIP
    /\ Len(AddrField(peer_data)) >= 1
    /\ Len(AddrField(peer_data)) <= 15
    /\ unique_addresses # {}
    /\ offset = HeaderSize + RecordSize * k

--------------------------------------------------------------------------
(* C9 *)

\* The number of declared records that lie wholly inside the buffer: the
\* record table.
TableSize(d, n) == Cardinality({i \in 0..(n - 1) : WholeRecord(d, i)})

\* The orders of m records.
Orders(m) == {p \in [1..m -> 1..m] : \A i, j \in 1..m : p[i] = p[j] => i = j}

\* The buffer d with its first m records in the order p: record i of the
\* new buffer is record p[i] of d, and every other byte is as in d.
Reordered(d, m, p) ==
    [j \in 1..Len(d) |->
        IF j > HeaderSize /\ j <= HeaderSize + RecordSize * m
        THEN LET i == (j - HeaderSize - 1) \div RecordSize
                 r == (j - HeaderSize - 1) % RecordSize
             IN  d[HeaderSize + RecordSize * (p[i + 1] - 1) + r + 1]
        ELSE d[j]]

\* C9: at the end of the loop the two address sets are those the loop ends
\* with on every buffer that holds the same record table in another order,
\* under the same header counts.
C9_OrderIndependent ==
    pc = "checksum" =>
        LET m == TableSize(data, DeclaredCount)
        IN  \A p \in Orders(m) :
                LET other == RecordLoop(Reordered(data, m, p),
                                        new_address_count, tried_address_count)
                IN  /\ other.ipv4 = ipv4_addresses
                    /\ other.ipv6 = ipv6_addresses

\* The loop has ended on a table of three records whose first and last
\* fields differ in family.
C9_Witness ==
    /\ pc = "checksum"
    /\ TableSize(data, DeclaredCount) = 3
    /\ ipv4_addresses # {}
    /\ ipv6_addresses # {}
    /\ parse_ip_address(FieldAt(data, 0)).version
           # parse_ip_address(FieldAt(data, 2)).version

--------------------------------------------------------------------------
(* C10 *)

\* Byte j of the buffer (from 1) belongs to the address field of one of the
\* first n records.
InAddrField(j, n) ==
    \E i \in 0..(n - 1) :
        /\ j > HeaderSize + RecordSize * i + AddrStart
        /\ j <= HeaderSize + RecordSize * i + AddrEnd

\* The buffer d with every byte outside the address fields of its first n
\* records changed.
Scrambled(d, n) ==
    [j \in 1..Len(d) |-> IF InAddrField(j, n) THEN d[j] ELSE (d[j] + 1) % 256]

\* C10: the loop does exactly new_count + tried_count iterations, the i-th
\* at offset 50 + 62 i, taking its address field from bytes
\* [50 + 62 i + 16, 50 + 62 i + 32) of the buffer; and, the counts being
\* given, the sets depend on the bytes of these fields alone: they are the
\* sets the loop gives on the buffer with every other byte changed.
C10_LoopShape ==
    HeaderRead =>
        /\ k <= DeclaredCount
        /\ pc # "loop" => k = DeclaredCount
        /\ offset = 50 + 62 * k
        /\ k > 0 =>
               /\ peer_data = Slice(data, 50 + 62 * (k - 1), 50 + 62 * k)
               /\ AddrField(peer_data) = FieldAt(data, k - 1)
               /\ ip = parse_ip_address(FieldAt(data, k - 1))
        /\ pc = "checksum" =>
               RecordLoop(Scrambled(data, DeclaredCount),
                          new_address_count, tried_address_count) = TheSets

\* The loop has ended after three iterations that found addresses.
C10_Witness ==
    /\ pc = "checksum"
    /\ k = 3
    /\ DeclaredCount = 3
    /\ offset = 236
    /\ unique_addresses # {}

====
